---- MODULE Spec2Model ----
(***************************************************************************)
(* The in-memory store of tweeter (src/src/db.rs): MemDb with its users,   *)
(* posts and the two id counters, and the AppDb operations on it.          *)
(*                                                                         *)
(* Every operation of the store is a pure operator from a store value and  *)
(* an argument to the new store value and the Result; the actions apply    *)
(* them to the one store of the state.  The variables op, res and arg      *)
(* record the last call: what was called, its Result, and its argument     *)
(* (for a failed call, the name or id the error message reports).          *)
(* user_adds and post_adds are history: the name and id of every user that *)
(* add_user stored and the id of every post that add_post stored, in call  *)
(* order.                                                                  *)
(*                                                                         *)
(* The request handlers of src/src/main.rs run on top of the store: reqs    *)
(* holds, per concurrently served request, the handler, its position in    *)
(* the handler's program, its cookie jar, its form and its local copy of a *)
(* user; lock is the holder of the Mutex around the store (0 when free);   *)
(* cookies is the set of names for which a signed "user" cookie has been   *)
(* issued.  The store-level specifications leave these three as they are.  *)
(*                                                                         *)
(* u64 counters are modelled as naturals: the counters are capped far      *)
(* below 2^64 by the bounds.                                               *)
(***************************************************************************)
EXTENDS Integers, Sequences, FiniteSets, TLC

\* ------------------------------------------------------------------ bounds
\* Number of distinct user names the callers use; user ids range over
\* 0 .. MaxUsers - 1 and next_user_id never exceeds MaxUsers.
MaxUsers == 2
\* Number of add_post calls that may succeed; post ids range over
\* 0 .. MaxPosts - 1.
MaxPosts == 3
\* Number of add_post calls in the specification that varies the users.
FewPosts == 1
\* Number of requests the server handles at the same time.
MaxRequests == 2

\* ----------------------------------------------------------- input domains
\* Names are compared exactly (String ==): "alice" and "Alice" differ.
AllNames == <<"alice", "Alice", "bob", "carol">>
Names == {AllNames[i] : i \in 1..MaxUsers}
Passwords == {"pw1", "pw2"}
Bios == {"", "hi"}
Contents == {"a", "b"}
UserIds == 0..(MaxUsers - 1)
PostIds == 0..(MaxPosts - 1)
\* Post.author_id is a plain u64 that the store never looks up.
AuthorIds == {0, 1}
\* Local::now() at the time Post::new runs.
Timestamps == {10, 20}

\* enum UserRole
UserRole == {"User", "Admin"}

\* struct User.  Any value of the type can reach the store's operations:
\* User::new gives id 0, a clone returned by any MemDb carries the id that
\* store assigned, and the setters cover the other fields.
User ==
  [id : UserIds, name : Names, password : Passwords, role : UserRole,
   blue : BOOLEAN, bio : Bios]

\* struct Post
Post ==
  [id : PostIds, author_id : AuthorIds, contents : Contents,
   timestamp : Timestamps]

\* User::new
User_new(name, password, role, blue) ==
  [id |-> 0, name |-> name, password |-> password, role |-> role,
   blue |-> blue, bio |-> ""]

\* Post::new that records the id after the author's
Post_new_NextAuthor(author, contents, now) ==
  [id |-> 0, author_id |-> author.id + 1, contents |-> contents,
   timestamp |-> now]

\* Post::new, with now the value of Local::now()
Post_new(author, contents, now) ==
  [id |-> 0, author_id |-> author.id, contents |-> contents,
   timestamp |-> now]

\* The one user and the one post of the specifications that vary the other
\* collection: what a handler builds with User::new and Post::new.
FewUser == {User_new(AllNames[1], "pw1", "User", FALSE)}
FewPost == {Post_new(User_new(AllNames[1], "pw1", "User", FALSE), "a", 10)}

\* ------------------------------------------------------------------- state
VARIABLES next_user_id, next_post_id, users, posts,
          user_adds, post_adds, op, res, arg,
          lock, reqs, cookies

store == <<next_user_id, next_post_id, users, posts>>
http == <<lock, reqs, cookies>>
vars ==
  <<next_user_id, next_post_id, users, posts, user_adds, post_adds, op, res,
    arg, lock, reqs, cookies>>

\* struct MemDb, as a value
MemDb ==
  [next_user_id |-> next_user_id, next_post_id |-> next_post_id,
   users |-> users, posts |-> posts]

\* MemDb::new
MemDb_new ==
  [next_user_id |-> 0, next_post_id |-> 0, users |-> <<>>, posts |-> <<>>]

\* Results
Ok(db) == [db |-> db, res |-> "Ok"]
Err(db, kind) == [db |-> db, res |-> kind]

\* Iterator::find(|x| x.name == name): the index of the first element of s
\* with that name, 0 when there is none.
FindName(s, name) ==
  IF \E i \in 1..Len(s) : s[i].name = name
  THEN CHOOSE i \in 1..Len(s) :
         s[i].name = name /\ \A j \in 1..(i - 1) : s[j].name # name
  ELSE 0

\* Iterator::find / position(|x| x.id == id): the index of the first element
\* of s with that id, 0 when there is none.
FindId(s, id) ==
  IF \E i \in 1..Len(s) : s[i].id = id
  THEN CHOOSE i \in 1..Len(s) :
         s[i].id = id /\ \A j \in 1..(i - 1) : s[j].id # id
  ELSE 0

\* swap_remove that drops the last element without moving it
swap_remove_DropLast(s, idx) ==
  [i \in 1..(Len(s) - 1) |-> s[i]]

swap_remove(s, idx) ==
  [i \in 1..(Len(s) - 1) |-> IF i = idx THEN s[Len(s)] ELSE s[i]]

\* -------------------------------------------------------------- operations
num_users(db) == Len(db.users)

\* add_user with the counter advanced before the duplicate check
add_user_IdBeforeCheck(db, user) ==
  LET taken == [db EXCEPT !.next_user_id = @ + 1] IN
  IF FindName(db.users, user.name) # 0
  THEN Err(taken, "DuplicateName")
  ELSE Ok([taken EXCEPT
             !.users = Append(@, [user EXCEPT !.id = db.next_user_id])])

\* add_user without the duplicate check
add_user_NoDupCheck(db, user) ==
  Ok([db EXCEPT
        !.next_user_id = @ + 1,
        !.users = Append(@, [user EXCEPT !.id = db.next_user_id])])

\* add_user whose ids start at 1: the counter is advanced before it is read
add_user_IdFromOne(db, user) ==
  IF FindName(db.users, user.name) # 0
  THEN Err(db, "DuplicateName")
  ELSE Ok([db EXCEPT
             !.next_user_id = @ + 1,
             !.users = Append(@, [user EXCEPT !.id = db.next_user_id + 1])])

\* add_user that stores a fresh User::new of the candidate, losing the bio
add_user_FreshRecord(db, user) ==
  LET fresh == User_new(user.name, user.password, user.role, user.blue) IN
  IF FindName(db.users, user.name) # 0
  THEN Err(db, "DuplicateName")
  ELSE Ok([db EXCEPT
             !.next_user_id = @ + 1,
             !.users = Append(@, [fresh EXCEPT !.id = db.next_user_id])])

add_user(db, user) ==
  IF FindName(db.users, user.name) # 0
  THEN Err(db, "DuplicateName")
  ELSE Ok([db EXCEPT
             !.next_user_id = @ + 1,
             !.users = Append(@, [user EXCEPT !.id = db.next_user_id])])

\* update_user that looks the user up by id instead of by name
update_user_FindById(db, user) ==
  LET idx == FindId(db.users, user.id) IN
  IF idx = 0
  THEN Err(db, "NotFound")
  ELSE Ok([db EXCEPT !.users[idx] = user])

\* update_user that inserts the record when the name is absent
update_user_Upsert(db, user) ==
  LET idx == FindName(db.users, user.name) IN
  IF idx = 0
  THEN Err([db EXCEPT !.users = Append(@, user)], "NotFound")
  ELSE Ok([db EXCEPT !.users[idx] = user])

\* update_user that writes the bio only
update_user_BioOnly(db, user) ==
  LET idx == FindName(db.users, user.name) IN
  IF idx = 0
  THEN Err(db, "NotFound")
  ELSE Ok([db EXCEPT !.users[idx].bio = user.bio])

update_user(db, user) ==
  LET idx == FindName(db.users, user.name) IN
  IF idx = 0
  THEN Err(db, "NotFound")
  ELSE Ok([db EXCEPT !.users[idx] = user])

get_user_by_id(db, id) ==
  LET idx == FindId(db.users, id) IN
  IF idx = 0
  THEN [res |-> "NotFound"]
  ELSE [res |-> "Ok", user |-> db.users[idx]]

get_user_by_name(db, name) ==
  LET idx == FindName(db.users, name) IN
  IF idx = 0
  THEN [res |-> "NotFound"]
  ELSE [res |-> "Ok", user |-> db.users[idx]]

get_users(db) == db.users

num_posts(db) == Len(db.posts)

\* add_post that inserts at the front
add_post_Front(db, post) ==
  Ok([db EXCEPT
        !.next_post_id = @ + 1,
        !.posts = <<[post EXCEPT !.id = db.next_post_id]>> \o @])

add_post(db, post) ==
  Ok([db EXCEPT
        !.next_post_id = @ + 1,
        !.posts = Append(@, [post EXCEPT !.id = db.next_post_id])])

update_post(db, post) ==
  LET idx == FindId(db.posts, post.id) IN
  IF idx = 0
  THEN Err(db, "NotFound")
  ELSE Ok([db EXCEPT !.posts[idx] = post])

get_posts(db) == db.posts

\* delete_post_by_id that gives the freed id back to the counter
delete_post_by_id_ReuseId(db, id) ==
  LET idx == FindId(db.posts, id) IN
  IF idx = 0
  THEN Err(db, "NotFound")
  ELSE Ok([db EXCEPT
             !.posts = swap_remove(@, idx),
             !.next_post_id = Len(db.posts) - 1])

delete_post_by_id(db, id) ==
  LET idx == FindId(db.posts, id) IN
  IF idx = 0
  THEN Err(db, "NotFound")
  ELSE Ok([db EXCEPT !.posts = swap_remove(@, idx)])

\* ----------------------------------------------------------------- actions
\* The store becomes db.
Commit(db) ==
  /\ next_user_id' = db.next_user_id
  /\ next_post_id' = db.next_post_id
  /\ users' = db.users
  /\ posts' = db.posts

\* The requests in service, and a slot that serves none.
Reqs == 1..MaxRequests
NoForm == [none |-> TRUE]
Idle ==
  [h |-> "idle", pc |-> 0, jar |-> {}, form |-> NoForm, user |-> <<>>,
   out |-> NoForm]

Init ==
  /\ lock = 0
  /\ reqs = [r \in Reqs |-> Idle]
  /\ cookies = {}
  /\ next_user_id = MemDb_new.next_user_id
  /\ next_post_id = MemDb_new.next_post_id
  /\ users = MemDb_new.users
  /\ posts = MemDb_new.posts
  /\ user_adds = <<>>
  /\ post_adds = <<>>
  /\ op = "new"
  /\ res = "Ok"
  /\ arg = [none |-> TRUE]

AddUser(cands) ==
  \E u \in cands :
    LET r == add_user(MemDb, u) IN
    /\ r.res = "Ok" => next_user_id < MaxUsers
    /\ Commit(r.db)
    /\ op' = "add_user"
    /\ res' = r.res
    /\ arg' = IF r.res = "Ok" THEN [user |-> u] ELSE [name |-> u.name]
    /\ user_adds' =
         IF r.res = "Ok"
         THEN Append(user_adds,
                     [name |-> u.name, id |-> r.db.users[Len(r.db.users)].id])
         ELSE user_adds
    /\ UNCHANGED <<post_adds, http>>

UpdateUser(cands) ==
  \E u \in cands :
    LET r == update_user(MemDb, u) IN
    /\ Commit(r.db)
    /\ op' = "update_user"
    /\ res' = r.res
    /\ arg' = IF r.res = "Ok" THEN [user |-> u] ELSE [name |-> u.name]
    /\ UNCHANGED <<user_adds, post_adds, http>>

AddPost(cands, cap) ==
  \E p \in cands :
    LET r == add_post(MemDb, p) IN
    /\ next_post_id < cap
    /\ Commit(r.db)
    /\ op' = "add_post"
    /\ res' = r.res
    /\ arg' = [post |-> p]
    /\ post_adds' = Append(post_adds, r.db.posts[Len(r.db.posts)].id)
    /\ UNCHANGED <<user_adds, http>>

UpdatePost(cands) ==
  \E p \in cands :
    LET r == update_post(MemDb, p) IN
    /\ Commit(r.db)
    /\ op' = "update_post"
    /\ res' = r.res
    /\ arg' = IF r.res = "Ok" THEN [post |-> p] ELSE [id |-> p.id]
    /\ UNCHANGED <<user_adds, post_adds, http>>

DeletePost ==
  \E id \in PostIds :
    LET r == delete_post_by_id(MemDb, id) IN
    /\ Commit(r.db)
    /\ op' = "delete_post_by_id"
    /\ res' = r.res
    /\ arg' = [id |-> id]
    /\ UNCHANGED <<user_adds, post_adds, http>>

\* Any sequence of store operations, the users' records varying over User.
Next ==
  \/ AddUser(User)
  \/ UpdateUser(User)
  \/ AddPost(FewPost, FewPosts)
  \/ UpdatePost(FewPost)
  \/ DeletePost

Spec == Init /\ [][Next]_vars

\* Any sequence of store operations, the posts' records varying over Post.
NextPosts ==
  \/ AddUser(FewUser)
  \/ UpdateUser(FewUser)
  \/ AddPost(Post, MaxPosts)
  \/ UpdatePost(Post)
  \/ DeletePost

SpecPosts == Init /\ [][NextPosts]_vars

\* ---------------------------------------------------------------- handlers
\* The user main() seeds before the server starts.
admin == User_new("admin", "pepegaman123", "Admin", TRUE)

\* What the clients send.  One name besides "admin" per further user.
HttpNames == {"admin"} \cup {AllNames[i] : i \in 1..(MaxUsers - 1)}
HttpPasswords == {"pepegaman123", "pw1"}
UserCmd == {"GrantBlue", "RemoveBlue"}

\* struct SignUp, SignIn, Settings, CreatePost, UpdateUser; Path(user_id)
SignUp == [username : HttpNames, password : HttpPasswords]
SignIn == [username : HttpNames, password : HttpPasswords]
Settings ==
  [currpass : HttpPasswords, newpass : {""} \cup HttpPasswords,
   bio : Bios \ {""}]
CreatePost == [contents : Contents]
UpdateUserForm == [id : UserIds, cmd : UserCmd]
ProfilePath == [user_id : UserIds]

\* User::check_password
check_password(user, password) == user.password = password

\* User::change_password
\* change_password that does not look at the current password
change_password_Unchecked(user, curr_pass, new_pass) ==
  [res |-> "Ok", user |-> [user EXCEPT !.password = new_pass]]

change_password(user, curr_pass, new_pass) ==
  IF check_password(user, curr_pass)
  THEN [res |-> "Ok", user |-> [user EXCEPT !.password = new_pass]]
  ELSE [res |-> "incorrect password", user |-> user]

\* User::set_bio, User::set_blue, User::role
set_bio(user, bio) == [user EXCEPT !.bio = bio]
\* set_blue that makes a verified user an Admin
set_blue_Promotes(user, blue) ==
  [user EXCEPT !.blue = blue, !.role = IF blue THEN "Admin" ELSE "User"]

set_blue(user, blue) == [user EXCEPT !.blue = blue]
role(user) == user.role

\* A response: the status or redirect target, and the cookie jar sent back
\* with it (the request's jar when the handler returns none).
Response(status, jar) == [status |-> status, jar |-> jar]

\* The programs of the handlers, from the point where the store is first
\* needed: "lock" waits for the Mutex and takes it, "unlock" is the end of
\* the scope of a guard before the handler returns, every other instruction
\* is the handler's code up to the next one.  A handler that returns drops
\* the guard it holds.
get_index == <<"lock", "index">>
post_register == <<"lock", "add_user">>
post_login == <<"lock", "login">>
post_create_post == <<"lock", "by_name", "add_post">>
get_profile == <<"lock", "profile">>
get_settings == <<"lock", "settings_page">>
\* post_settings that drops the guard after reading the user and locks again
\* to write
post_settings_Relock ==
  <<"lock", "by_name", "unlock", "lock", "put_settings">>

post_settings == <<"lock", "by_name", "put_settings">>
\* auth_admin that lets every existing user through
auth_admin_AnyUser == <<"lock", "auth", "unlock">>

\* auth_admin that keeps the guard while the inner handler runs
auth_admin_KeepsGuard == <<"lock", "auth", "role">>

auth_admin == <<"lock", "auth", "unlock", "role">>
get_admin == <<"admin_page">>
get_users_admin == <<"lock", "users_page">>
post_users_admin == <<"lock", "by_id", "put_blue">>

\* The routes of main(): the admin routes run auth_admin first.
Program(h) ==
  CASE h = "get_index" -> get_index
    [] h = "post_register" -> post_register
    [] h = "post_login" -> post_login
    [] h = "post_create_post" -> post_create_post
    [] h = "get_profile" -> get_profile
    [] h = "get_settings" -> get_settings
    [] h = "post_settings" -> post_settings
    [] h = "get_admin" -> auth_admin \o get_admin
    [] h = "get_users_admin" -> auth_admin \o get_users_admin
    [] h = "post_users_admin" -> auth_admin \o post_users_admin
    [] OTHER -> <<>>

AdminRoutes == {"get_admin", "get_users_admin", "post_users_admin"}

\* What a handler answers before it needs the store, from the cookie jar
\* alone: <<>> when it goes on.
on_arrival(h, jar) ==
  CASE h \in {"get_register", "get_login"} ->
         <<Response(IF jar # {} THEN "Redirect /" ELSE "OK", jar)>>
    [] h = "get_create_post" ->
         <<Response(IF jar = {} THEN "Redirect /login" ELSE "OK", jar)>>
    [] h = "post_logout" -> <<Response("Redirect /", {})>>
    [] h \in {"post_register", "post_login"} ->
         IF jar # {} THEN <<Response("Redirect /", jar)>> ELSE <<>>
    [] h \in {"post_create_post", "get_settings", "post_settings"} ->
         IF jar = {} THEN <<Response("Redirect /login", jar)>> ELSE <<>>
    [] h \in AdminRoutes ->
         IF jar = {} THEN <<Response("UNAUTHORIZED", jar)>> ELSE <<>>
    [] OTHER -> <<>>

\* The requests: a route and its form.
FormOf(h) ==
  CASE h = "post_register" -> SignUp
    [] h = "post_login" -> SignIn
    [] h = "post_settings" -> Settings
    [] h = "post_create_post" -> CreatePost
    [] h = "post_users_admin" -> UpdateUserForm
    [] h = "get_profile" -> ProfilePath
    [] OTHER -> {NoForm}

Routes ==
  {"get_index", "get_register", "post_register", "get_login", "post_login",
   "post_logout", "get_create_post", "post_create_post", "get_profile",
   "get_settings", "post_settings", "get_admin", "get_users_admin",
   "post_users_admin"}

AllRequests == UNION {[h : {h}, form : FormOf(h)] : h \in Routes}

\* post_settings from the user read under the lock: change_password when
\* newpass is not empty, set_bio, update_user.
put_settings(db, user, form) ==
  LET changed ==
        IF form.newpass # ""
        THEN change_password(user, form.currpass, form.newpass)
        ELSE [res |-> "Ok", user |-> user]
      updated == update_user(db, set_bio(changed.user, form.bio)) IN
  IF changed.res # "Ok"
  THEN [db |-> db, status |-> "Redirect /settings?err"]
  ELSE IF updated.res # "Ok"
       THEN [db |-> db, status |-> "INTERNAL_SERVER_ERROR"]
       ELSE [db |-> updated.db, status |-> "Redirect /settings?success"]

\* post_users_admin from the user read under the lock: set_blue,
\* update_user(..).unwrap().
\* post_users_admin that builds the record to write with User::new, id 0
put_blue_FreshRecord(db, user, form) ==
  LET fresh ==
        User_new(user.name, user.password, user.role,
                 form.cmd = "GrantBlue")
      updated == update_user(db, fresh) IN
  IF updated.res # "Ok"
  THEN [db |-> db, status |-> "panic"]
  ELSE [db |-> updated.db, status |-> "Redirect /admin/users"]

put_blue(db, user, form) ==
  LET updated == update_user(db, set_blue(user, form.cmd = "GrantBlue")) IN
  IF updated.res # "Ok"
  THEN [db |-> db, status |-> "panic"]
  ELSE [db |-> updated.db, status |-> "Redirect /admin/users"]

\* post_login that does not compare the password
login_ok_AnyPassword(db, form) ==
  get_user_by_name(db, form.username).res = "Ok"

\* post_login: the user of that name exists and has that password.
login_ok(db, form) ==
  LET got == get_user_by_name(db, form.username) IN
  got.res = "Ok" /\ check_password(got.user, form.password)

\* The name in the "user" cookie of a jar that has one.
CookieName(jar) == CHOOSE n \in jar : TRUE

\* The instruction request r is at, "none" when it is not running.
Instr(r) ==
  IF reqs[r].pc \in 1..Len(Program(reqs[r].h))
  THEN Program(reqs[r].h)[reqs[r].pc]
  ELSE "none"

\* The handler returns out: the guard it holds is dropped, the client keeps
\* the jar sent back.
Finish(r, out) ==
  /\ reqs' = [reqs EXCEPT ![r] = [Idle EXCEPT !.out = out]]
  /\ lock' = IF lock = r THEN 0 ELSE lock
  /\ cookies' = cookies \cup out.jar

\* The handler goes on to its next instruction, with local user copy us.
Continue(r, us) ==
  /\ reqs' = [reqs EXCEPT ![r].pc = @ + 1, ![r].user = us]
  /\ UNCHANGED cookies

history == <<user_adds, post_adds, op, res, arg>>

\* A request arrives in a free slot (one never used before when once).
Begin(r, requests, once) ==
  /\ reqs[r].pc = 0
  /\ once => reqs[r].out = NoForm
  /\ \E q \in requests, jar \in {{}} \cup {{n} : n \in cookies} :
       LET early == on_arrival(q.h, jar) IN
       IF early # <<>>
       THEN Finish(r, early[1])
       ELSE /\ reqs' = [reqs EXCEPT ![r] =
                         [Idle EXCEPT !.h = q.h, !.pc = 1, !.jar = jar,
                                      !.form = q.form]]
            /\ UNCHANGED <<lock, cookies>>
  /\ UNCHANGED <<store, history>>

\* state.db.lock()
Acquire(r) ==
  /\ Instr(r) = "lock"
  /\ lock = 0
  /\ lock' = r
  /\ Continue(r, reqs[r].user)
  /\ UNCHANGED <<store, history>>

\* The end of the block that holds the guard in auth_admin.
Release(r) ==
  /\ Instr(r) = "unlock"
  /\ lock = r
  /\ lock' = 0
  /\ Continue(r, reqs[r].user)
  /\ UNCHANGED <<store, history>>

\* get_user_by_name for the cookie's name (auth_admin, post_create_post,
\* post_settings) or get_user_by_id for the form's id (post_users_admin).
Lookup(r) ==
  /\ Instr(r) \in {"auth", "by_name", "by_id"}
  /\ lock = r
  /\ LET ins == Instr(r)
         got == IF ins = "by_id"
                THEN get_user_by_id(MemDb, reqs[r].form.id)
                ELSE get_user_by_name(MemDb, CookieName(reqs[r].jar))
         failed == CASE ins = "auth" -> "UNAUTHORIZED"
                     [] ins = "by_name" -> "Redirect /logout"
                     [] ins = "by_id" -> "BAD_REQUEST" IN
     IF got.res = "Ok"
     THEN Continue(r, <<got.user>>) /\ UNCHANGED lock
     ELSE Finish(r, Response(failed, reqs[r].jar))
  /\ UNCHANGED <<store, history>>

\* auth_admin after the guard is gone: user.role() == UserRole::Admin
RoleCheck(r) ==
  /\ Instr(r) = "role"
  /\ IF role(reqs[r].user[1]) = "Admin"
     THEN Continue(r, reqs[r].user) /\ UNCHANGED lock
     ELSE Finish(r, Response("UNAUTHORIZED", reqs[r].jar))
  /\ UNCHANGED <<store, history>>

\* get_admin
AdminPage(r) ==
  /\ Instr(r) = "admin_page"
  /\ Finish(r, Response("OK", reqs[r].jar))
  /\ UNCHANGED <<store, history>>

\* get_index, get_profile, get_settings, get_users_admin: read and render.
ReadPage(r) ==
  /\ Instr(r) \in {"index", "profile", "settings_page", "users_page"}
  /\ lock = r
  /\ LET ins == Instr(r)
         status ==
           CASE ins = "profile" ->
                  IF get_user_by_id(MemDb, reqs[r].form.user_id).res = "Ok"
                  THEN "OK" ELSE "NOT_FOUND"
             [] ins = "settings_page" ->
                  IF get_user_by_name(MemDb, CookieName(reqs[r].jar)).res
                       = "Ok"
                  THEN "OK" ELSE "Redirect /logout"
             [] OTHER -> "OK" IN
     Finish(r, Response(status, reqs[r].jar))
  /\ UNCHANGED <<store, history>>

\* post_register without a cookie: add_user, then the cookie.
Register(r) ==
  /\ Instr(r) = "add_user"
  /\ lock = r
  /\ LET form == reqs[r].form
         new_user == User_new(form.username, form.password, "User", FALSE)
         added == add_user(MemDb, new_user) IN
     /\ added.res = "Ok" => next_user_id < MaxUsers
     /\ Commit(added.db)
     /\ IF added.res = "Ok"
        THEN /\ Finish(r, Response("Redirect /", {form.username}))
             /\ user_adds' =
                  Append(user_adds,
                         [name |-> form.username,
                          id |-> added.db.users[Len(added.db.users)].id])
        ELSE /\ Finish(r, Response("Redirect /register#err", reqs[r].jar))
             /\ UNCHANGED user_adds
  /\ UNCHANGED <<post_adds, op, res, arg>>

\* post_login without a cookie.
Login(r) ==
  /\ Instr(r) = "login"
  /\ lock = r
  /\ IF login_ok(MemDb, reqs[r].form)
     THEN Finish(r, Response("Redirect /", {reqs[r].form.username}))
     ELSE Finish(r, Response("Redirect /login?err", reqs[r].jar))
  /\ UNCHANGED <<store, history>>

\* post_create_post: Post::new for the user read, add_post(..).unwrap().
CreatePostStep(r, stamps, cap) ==
  /\ Instr(r) = "add_post"
  /\ lock = r
  /\ next_post_id < cap
  /\ \E now \in stamps :
       LET added ==
             add_post(MemDb,
                      Post_new(reqs[r].user[1], reqs[r].form.contents, now))
       IN
       /\ Commit(added.db)
       /\ post_adds' =
            Append(post_adds, added.db.posts[Len(added.db.posts)].id)
  /\ Finish(r, Response("Redirect /", reqs[r].jar))
  /\ UNCHANGED <<user_adds, op, res, arg>>

\* post_settings after the user is read.
PutSettings(r) ==
  /\ Instr(r) = "put_settings"
  /\ lock = r
  /\ LET done == put_settings(MemDb, reqs[r].user[1], reqs[r].form) IN
     /\ Commit(done.db)
     /\ Finish(r, Response(done.status, reqs[r].jar))
  /\ UNCHANGED history

\* post_users_admin after the user is read.
PutBlue(r) ==
  /\ Instr(r) = "put_blue"
  /\ lock = r
  /\ LET done == put_blue(MemDb, reqs[r].user[1], reqs[r].form) IN
     /\ Commit(done.db)
     /\ Finish(r, Response(done.status, reqs[r].jar))
  /\ UNCHANGED history

\* main() up to the point where the server listens: the store holds admin.
InitHttp ==
  /\ lock = 0
  /\ reqs = [r \in Reqs |-> Idle]
  /\ cookies = {}
  /\ LET seeded == add_user(MemDb_new, admin).db IN
     /\ next_user_id = seeded.next_user_id
     /\ next_post_id = seeded.next_post_id
     /\ users = seeded.users
     /\ posts = seeded.posts
     /\ user_adds = <<[name |-> admin.name, id |-> seeded.users[1].id]>>
  /\ post_adds = <<>>
  /\ op = "add_user"
  /\ res = "Ok"
  /\ arg = [user |-> admin]

\* One step of request r.
Serve(r, stamps, cap) ==
  \/ Acquire(r)
  \/ Release(r)
  \/ Lookup(r)
  \/ RoleCheck(r)
  \/ AdminPage(r)
  \/ ReadPage(r)
  \/ Register(r)
  \/ Login(r)
  \/ CreatePostStep(r, stamps, cap)
  \/ PutSettings(r)
  \/ PutBlue(r)

\* The requests that race with the others in SpecHttp: a registration, the
\* one request that adds a user. The race of two writes to one user is
\* SpecRace's.
Writers ==
  {[h |-> "post_register",
    form |-> [username |-> AllNames[1], password |-> "pw1"]]}

\* Any request in the first slot, one after another, each racing with the
\* Writers in the other slots.
NextHttp ==
  \E r \in Reqs :
    \/ Begin(r, IF r = 1 THEN AllRequests ELSE Writers, FALSE)
    \/ Serve(r, {10}, FewPosts)

\* A later state of the server: AllNames[1] has registered, both users hold
\* a session cookie, nothing is in service.
InitSessions ==
  /\ lock = 0
  /\ reqs = [r \in Reqs |-> Idle]
  /\ cookies = {admin.name, AllNames[1]}
  /\ LET seeded == add_user(MemDb_new, admin).db
         joined ==
           add_user(seeded, User_new(AllNames[1], "pw1", "User", FALSE)).db
     IN
     /\ next_user_id = joined.next_user_id
     /\ next_post_id = joined.next_post_id
     /\ users = joined.users
     /\ posts = joined.posts
     /\ user_adds = <<[name |-> admin.name, id |-> joined.users[1].id],
                      [name |-> AllNames[1], id |-> joined.users[2].id]>>
  /\ post_adds = <<>>
  /\ op = "add_user"
  /\ res = "Ok"
  /\ arg = [user |-> User_new(AllNames[1], "pw1", "User", FALSE)]

\* The two handlers that read a user and write it back.
RaceRequests ==
  [h : {"post_settings"}, form : Settings]
    \cup [h : {"post_users_admin"}, form : UpdateUserForm]

\* MaxRequests requests, each one of RaceRequests, served concurrently.
NextRace ==
  \E r \in Reqs :
    \/ Begin(r, RaceRequests, TRUE)
    \/ Acquire(r)
    \/ Release(r)
    \/ Lookup(r)
    \/ RoleCheck(r)
    \/ PutSettings(r)
    \/ PutBlue(r)

SpecRace == InitSessions /\ [][NextRace]_vars

SpecHttp == InitHttp /\ [][NextHttp]_vars

\* The requests of SpecFair: an admin request, which locks in auth_admin and
\* again in its handler, and a settings request, which locks once.
FairRequests ==
  {[h |-> "post_users_admin", form |-> [id |-> 1, cmd |-> "GrantBlue"]],
   [h |-> "post_users_admin", form |-> [id |-> 1, cmd |-> "RemoveBlue"]],
   [h |-> "post_settings",
    form |-> [currpass |-> "pw1", newpass |-> "", bio |-> "hi"]]}

\* Requests of FairRequests, MaxRequests at a time, one after another in
\* each slot, without end.
NextFair ==
  \E r \in Reqs :
    \/ Begin(r, FairRequests, FALSE)
    \/ Acquire(r)
    \/ Release(r)
    \/ Lookup(r)
    \/ RoleCheck(r)
    \/ PutSettings(r)
    \/ PutBlue(r)

\* A handler that can run does run (the runtime polls every task), and a
\* handler that finds the lock free again and again gets it in the end (fair
\* scheduling of the waiters of the Mutex).
SpecFair ==
  /\ InitSessions
  /\ [][NextFair]_vars
  /\ \A r \in Reqs :
       /\ SF_vars(Acquire(r))
       /\ WF_vars(Release(r) \/ Lookup(r) \/ RoleCheck(r) \/ PutSettings(r)
                    \/ PutBlue(r))

\* ------------------------------------------------------------------ claims
\* The name the last add_user or update_user call was made for.
CalledName == IF res = "Ok" THEN arg.user.name ELSE arg.name

\* The post id the last update_post call was made for.
CalledPostId == IF res = "Ok" THEN arg.post.id ELSE arg.id

HasName(us, name) == \E i \in 1..Len(us) : us[i].name = name
HasPost(ps, id) == \E i \in 1..Len(ps) : ps[i].id = id
Range(s) == {s[i] : i \in 1..Len(s)}
AscendingIds(ps) ==
  \A i, j \in 1..Len(ps) : i < j => ps[i].id < ps[j].id

\* C1: add_user for a name that a stored user already has fails with
\* DuplicateName and leaves users, posts and both counters as they were.
C1_DuplicateNameRejected ==
  [][(op' = "add_user" /\ HasName(users, CalledName'))
       => (res' = "DuplicateName" /\ UNCHANGED store)]_vars

\* "alice" added twice: the second call failed and count_users is 1.
C1_Witness ==
  /\ op = "add_user"
  /\ res = "DuplicateName"
  /\ num_users(MemDb) = 1
  /\ next_user_id = 1

\* C2: no two stored users have the same name.
C2_UniqueNames ==
  \A i, j \in 1..Len(users) : i # j => users[i].name # users[j].name

\* Two users are stored and one of them has just been replaced.
C2_Witness ==
  /\ Len(users) = 2
  /\ op = "update_user"
  /\ res = "Ok"

\* C3: the k-th successful add_user (from 0) stores its user under id k,
\* whatever calls failed in between, and the counter is the number of
\* successful calls.
C3_IdsCountFromZero ==
  /\ \A k \in 1..Len(user_adds) : user_adds[k].id = k - 1
  /\ next_user_id = Len(user_adds)

\* Two users were added, and the last add_user call failed.
C3_Witness ==
  /\ Len(user_adds) = 2
  /\ user_adds[2].id = 1
  /\ op = "add_user"
  /\ res = "DuplicateName"

\* C4 as claimed: every user that was added is found by its name under the
\* id add_user gave it.
C4_IdNeverChanges ==
  \A k \in 1..Len(user_adds) :
    LET got == get_user_by_name(MemDb, user_adds[k].name) IN
    got.res = "Ok" /\ got.user.id = user_adds[k].id

\* C4 as amended: a stored user keeps its name and its position, and its id
\* changes only in a successful update_user call for its name, to the id of
\* the record passed.
C4_IdChangesOnlyByUpdate ==
  [][\A i \in 1..Len(users) :
       /\ Len(users') >= i
       /\ users'[i].name = users[i].name
       /\ users'[i].id # users[i].id =>
            /\ op' = "update_user"
            /\ res' = "Ok"
            /\ arg'.user.name = users[i].name
            /\ arg'.user.id = users'[i].id]_vars

\* update_user with the stored id and another bio: the user still has the id
\* add_user gave it.
C4_Witness ==
  /\ op = "update_user"
  /\ res = "Ok"
  /\ arg.user.bio = "hi"
  /\ Len(users) = 2
  /\ \A k \in 1..Len(user_adds) :
       get_user_by_name(MemDb, user_adds[k].name).user.id = user_adds[k].id
  /\ arg.user.name = user_adds[2].name

\* C5: update_user for an absent name, update_post and delete_post_by_id for
\* an absent id fail with NotFound, and a call that fails with NotFound leaves
\* users, posts and both counters as they were.
C5_NotFoundLeavesStore ==
  [][/\ (op' = "update_user" /\ ~HasName(users, CalledName'))
          => res' = "NotFound"
     /\ (op' = "update_post" /\ ~HasPost(posts, CalledPostId'))
          => res' = "NotFound"
     /\ (op' = "delete_post_by_id" /\ ~HasPost(posts, arg'.id))
          => res' = "NotFound"
     /\ res' = "NotFound" => UNCHANGED store]_vars

\* update_user failed for a name that is not among the stored users.
C5_Witness ==
  /\ op = "update_user"
  /\ res = "NotFound"
  /\ Len(users) = 1
  /\ ~HasName(users, arg.name)

\* C6: delete_post_by_id for a stored id removes that post and no other:
\* one post fewer, none with that id, every other post still stored as it
\* was, users and both counters as they were.
C6_DeleteRemovesExactlyOne ==
  [][(op' = "delete_post_by_id" /\ HasPost(posts, arg'.id))
       => /\ res' = "Ok"
          /\ num_posts(MemDb') = num_posts(MemDb) - 1
          /\ ~HasPost(get_posts(MemDb'), arg'.id)
          /\ Range(get_posts(MemDb')) = {p \in Range(posts) : p.id # arg'.id}
          /\ UNCHANGED <<users, next_user_id, next_post_id>>]_vars

\* Three posts were added and the second one (id 1) has just been deleted.
C6_Witness ==
  /\ op = "delete_post_by_id"
  /\ res = "Ok"
  /\ arg.id = 1
  /\ post_adds = <<0, 1, 2>>
  /\ num_posts(MemDb) = 2
  /\ Len(users) = 1

\* C7: add_post hands out 0, 1, 2, ... in call order, whatever the user
\* counter is and whatever was deleted: each id is greater than all ids
\* handed out before, the counter is the number of add_post calls, and the
\* stored posts have pairwise distinct ids that were all handed out.
C7_PostIdsNeverReused ==
  /\ \A k \in 1..Len(post_adds) : post_adds[k] = k - 1
  /\ \A i, j \in 1..Len(post_adds) : i < j => post_adds[i] < post_adds[j]
  /\ next_post_id = Len(post_adds)
  /\ \A i, j \in 1..Len(posts) : i # j => posts[i].id # posts[j].id
  /\ \A i \in 1..Len(posts) : posts[i].id < next_post_id

\* A post was added after a deletion, with a user counter that differs from
\* the post counter.
C7_Witness ==
  /\ op = "add_post"
  /\ Len(post_adds) = 3
  /\ Len(posts) = 2
  /\ next_user_id = 1
  /\ posts[Len(posts)].id = 2

\* C8 as claimed: the stored posts are in ascending order of id.
C8_InsertionOrder == AscendingIds(get_posts(MemDb))

\* C8 as amended: as long as no post has been deleted (every post that was
\* added is still stored), the stored posts are in ascending order of id.
C8_InsertionOrderUntilDelete ==
  Len(posts) = Len(post_adds) => AscendingIds(get_posts(MemDb))

\* Three posts were added, none was deleted, and one has just been replaced.
C8_Witness ==
  /\ Len(posts) = 3
  /\ Len(post_adds) = 3
  /\ op = "update_post"
  /\ res = "Ok"

\* C9: update_user for a stored name succeeds; afterwards get_user_by_name
\* returns the record passed, and the number and order of users, every other
\* user, the posts and both counters are as they were.
C9_UpdateReplacesRecord ==
  [][(op' = "update_user" /\ HasName(users, CalledName'))
       => /\ res' = "Ok"
          /\ get_user_by_name(MemDb', arg'.user.name) =
               [res |-> "Ok", user |-> arg'.user]
          /\ Len(users') = Len(users)
          /\ \A i \in 1..Len(users) :
               /\ users'[i].name = users[i].name
               /\ users[i].name # arg'.user.name => users'[i] = users[i]
          /\ UNCHANGED <<posts, next_user_id, next_post_id>>]_vars

\* The second of two users has just been replaced by a record with another
\* bio, and a post is stored.
C9_Witness ==
  /\ op = "update_user"
  /\ res = "Ok"
  /\ Len(users) = 2
  /\ users[2] = arg.user
  /\ arg.user.bio = "hi"
  /\ arg.user.password = "pw2"
  /\ Len(posts) = 1

\* The id add_user gave to the user it stored last.
LastAssignedId == user_adds[Len(user_adds)].id

\* C10 as claimed: right after a successful add_user, get_user_by_name for
\* the name and get_user_by_id for the assigned id return the same record,
\* which is the candidate with the assigned id.
C10_JustAddedFoundByNameAndId ==
  (op = "add_user" /\ res = "Ok") =>
    /\ get_user_by_name(MemDb, arg.user.name) =
         [res |-> "Ok", user |-> [arg.user EXCEPT !.id = LastAssignedId]]
    /\ get_user_by_id(MemDb, LastAssignedId) =
         get_user_by_name(MemDb, arg.user.name)

\* C10 as amended: right after a successful add_user, get_user_by_name for
\* the name returns the candidate with the assigned id, and get_user_by_id
\* for the assigned id returns the same record provided no other stored user
\* carries that id.
C10_JustAddedFoundByName ==
  (op = "add_user" /\ res = "Ok") =>
    /\ get_user_by_name(MemDb, arg.user.name) =
         [res |-> "Ok", user |-> [arg.user EXCEPT !.id = LastAssignedId]]
    /\ (\A i \in 1..Len(users) :
          users[i].id = LastAssignedId => users[i].name = arg.user.name)
         => get_user_by_id(MemDb, LastAssignedId) =
              get_user_by_name(MemDb, arg.user.name)

\* A second user with a bio has just been added to a store whose first user
\* has a bio too, and both lookups return the new user.
C10_Witness ==
  /\ op = "add_user"
  /\ res = "Ok"
  /\ Len(users) = 2
  /\ arg.user.bio = "hi"
  /\ users[1].bio = "hi"
  /\ get_user_by_id(MemDb, LastAssignedId) =
       get_user_by_name(MemDb, arg.user.name)
  /\ get_user_by_id(MemDb, 1).user.name = arg.user.name

\* The stored user of that name.
Stored(name) == users[FindName(users, name)]

\* The step, if it is the write of request r, writes the handler's fields
\* into the record as it is stored now and changes nothing else.
WritesBack(r) ==
  LET q == reqs[r] IN
  /\ (/\ Instr(r) = "put_settings"
      /\ reqs'[r].out = Response("Redirect /settings?success", q.jar))
       => LET i == FindName(users, CookieName(q.jar)) IN
          /\ i # 0
          /\ users' =
               [users EXCEPT ![i].bio = q.form.bio,
                             ![i].password =
                               IF q.form.newpass # ""
                               THEN q.form.newpass ELSE @]
  /\ (/\ Instr(r) = "put_blue"
      /\ reqs'[r].out = Response("Redirect /admin/users", q.jar))
       => LET i == FindId(users, q.form.id) IN
          /\ i # 0
          /\ users' = [users EXCEPT ![i].blue = (q.form.cmd = "GrantBlue")]

\* C11: post_settings and post_users_admin hold the lock from reading the
\* user to update_user, so no update is lost: in every interleaving the
\* write of a settings request puts its bio and password into the record as
\* stored at that moment, verified flag included, and the write of an admin
\* request puts its verified flag into the record as stored at that moment,
\* bio and password included.
C11_NoLostUpdate == [][\A r \in Reqs : WritesBack(r)]_vars

\* A settings request of AllNames[1] and an admin grant for the same user
\* have both succeeded, and the stored record has the new bio, the new
\* password and the verified flag.
C11_Witness ==
  /\ \E r1, r2 \in Reqs :
       /\ reqs[r1].out =
            Response("Redirect /settings?success", {AllNames[1]})
       /\ reqs[r2].out = Response("Redirect /admin/users", {admin.name})
  /\ FindName(users, AllNames[1]) # 0
  /\ Stored(AllNames[1]).bio = "hi"
  /\ Stored(AllNames[1]).password = "pepegaman123"
  /\ Stored(AllNames[1]).blue

\* C12: handlers preserve the id on update: the record post_settings or
\* post_users_admin is about to pass to update_user has the id stored for its
\* name, and in every state reachable through HTTP requests the user ids are
\* pairwise distinct and each user has the id it was given at registration.
C12_HandlersPreserveIds ==
  /\ \A r \in Reqs :
       Instr(r) \in {"put_settings", "put_blue"} =>
         /\ FindName(users, reqs[r].user[1].name) # 0
         /\ Stored(reqs[r].user[1].name).id = reqs[r].user[1].id
  /\ \A i, j \in 1..Len(users) : i # j => users[i].id # users[j].id
  /\ Len(user_adds) = Len(users)
  /\ \A i \in 1..Len(users) :
       /\ users[i].name = user_adds[i].name
       /\ users[i].id = user_adds[i].id

\* AllNames[1] registered after admin and got id 1; since then a settings
\* request changed its bio and an admin request its verified flag, and an
\* admin request for id 0 changed the flag of admin.
C12_Witness ==
  /\ Len(users) = 2
  /\ users[2].name = AllNames[1]
  /\ users[2].id = 1
  /\ users[2].bio = "hi"
  /\ users[2].blue
  /\ users[1].id = 0
  /\ ~users[1].blue

\* Request r is at state.db.lock().
AtLock(r) == Instr(r) = "lock"

InAuth(r) == reqs[r].h \in AdminRoutes /\ reqs[r].pc \in 1..Len(auth_admin)

\* Request r is inside the handler of an admin route.
InAdminHandler(r) ==
  reqs[r].h \in AdminRoutes /\ reqs[r].pc > Len(auth_admin)

\* The cookie of request r names a stored user with role Admin.
AdminSession(r) ==
  /\ reqs[r].jar # {}
  /\ FindName(users, CookieName(reqs[r].jar)) # 0
  /\ role(Stored(CookieName(reqs[r].jar))) = "Admin"

\* C14: a request for an admin route is inside the route's handler only if
\* its cookie names a stored user with role Admin, and it passes the role
\* check only with such a user read from the store; without a cookie it is
\* answered UNAUTHORIZED on arrival; while it is in auth_admin the store does
\* not change by its steps and the only answer it gets there is UNAUTHORIZED.
\* So a verified flag changes only by the write of a post_users_admin
\* request with an Admin session.
C14_AdminOnly ==
  /\ [](\A r \in Reqs : InAdminHandler(r) => AdminSession(r))
  /\ [](\A h \in AdminRoutes :
          on_arrival(h, {}) = <<Response("UNAUTHORIZED", {})>>)
  /\ [][\A r \in Reqs :
          /\ (InAuth(r) /\ reqs'[r] # reqs[r]) =>
               /\ UNCHANGED store
               /\ reqs'[r].pc = 0 =>
                    reqs'[r].out = Response("UNAUTHORIZED", reqs[r].jar)
               /\ (Instr(r) = "role" /\ reqs'[r].pc # 0) =>
                    /\ AdminSession(r)
                    /\ reqs[r].user[1].name = CookieName(reqs[r].jar)
          /\ (reqs[r].pc = 0 /\ reqs'[r] # reqs[r]) => UNCHANGED store]_vars
  /\ [][(\E i \in 1..Len(users) : users'[i].blue # users[i].blue) =>
          \E r \in Reqs :
            /\ reqs[r].h = "post_users_admin"
            /\ Instr(r) = "put_blue"
            /\ AdminSession(r)
            /\ reqs'[r].pc = 0]_vars

\* AllNames[1], verified by an admin request before, has asked for an admin
\* route with its own session cookie and was answered UNAUTHORIZED.
C14_Witness ==
  /\ \E r \in Reqs : reqs[r].out = Response("UNAUTHORIZED", {AllNames[1]})
  /\ FindName(users, AllNames[1]) # 0
  /\ Stored(AllNames[1]).blue
  /\ role(Stored(AllNames[1])) = "User"

\* C15: no HTTP request changes the role of a user: a user added by
\* registration is created with role User and verified = false and has role
\* User in every later state, and the user admin seeded at startup is Admin
\* and is the only Admin ever.
C15_RolesNeverChange ==
  /\ [](\A i \in 1..Len(users) :
          role(users[i]) = "Admin" <=> users[i].name = admin.name)
  /\ [][(Len(users') >= Len(users))
          /\ (\A i \in 1..Len(users) :
                /\ users'[i].name = users[i].name
                /\ role(users'[i]) = role(users[i]))
          /\ (\A j \in (Len(users) + 1)..Len(users') :
                role(users'[j]) = "User" /\ ~users'[j].blue)]_vars

\* AllNames[1] registered, changed its password and bio and was verified by
\* admin, and admin lost its verified flag and changed its password: the
\* roles are as they were.
C15_Witness ==
  /\ Len(users) = 2
  /\ users[1].name = admin.name
  /\ users[1].password # admin.password
  /\ ~users[1].blue
  /\ role(users[1]) = "Admin"
  /\ users[2].name = AllNames[1]
  /\ users[2].blue
  /\ users[2].bio = "hi"
  /\ role(users[2]) = "User"
  /\ \E r \in Reqs :
       reqs[r].out = Response("Redirect /settings?success", {AllNames[1]})

\* The step of request r, if it ends a post_register or post_login in
\* service, sets the cookie exactly when add_user succeeds or the password
\* matches, and a step of a request that carries a cookie, or of one that
\* arrives, adds no user and no cookie.
IssuesCookie(r) ==
  LET q == reqs[r]
      out == reqs'[r].out IN
  /\ (Instr(r) = "add_user" /\ reqs'[r].pc = 0) =>
       /\ q.h = "post_register"
       /\ IF HasName(users, q.form.username)
          THEN out.jar = {} /\ UNCHANGED store /\ cookies' = cookies
          ELSE /\ out.jar = {q.form.username}
               /\ Len(users') = Len(users) + 1
               /\ users'[Len(users')].name = q.form.username
  /\ (Instr(r) = "login" /\ reqs'[r].pc = 0) =>
       /\ q.h = "post_login"
       /\ UNCHANGED store
       /\ IF /\ FindName(users, q.form.username) # 0
             /\ Stored(q.form.username).password = q.form.password
          THEN out.jar = {q.form.username}
          ELSE out.jar = {} /\ cookies' = cookies
  /\ (/\ q.pc # 0
      /\ Instr(r) \notin {"add_user", "login"}
      /\ reqs'[r].pc = 0) => out.jar \subseteq q.jar
  /\ (q.pc # 0 /\ q.jar # {} /\ reqs'[r] # q) =>
       /\ Instr(r) \notin {"add_user", "login"}
       /\ Len(users') = Len(users)
       /\ cookies' = cookies
  /\ (q.pc = 0 /\ reqs'[r] # q) =>
       /\ UNCHANGED store
       /\ cookies' = cookies
       /\ reqs'[r].pc = 0 => out.jar \subseteq cookies

\* C16: a session cookie for n is issued only by post_register after
\* add_user for n succeeded or by post_login after the password given matched
\* the stored password of the existing user n; a registration rejected for
\* a duplicate name and a login with an unknown name or a wrong password set
\* no cookie and leave the store unchanged; a request that carries a session
\* cookie causes neither an add_user nor a new cookie.
C16_CookieOnlyAfterProof ==
  [][(\A r \in Reqs : IssuesCookie(r))
       /\ (cookies' # cookies =>
             \E r \in Reqs :
               Instr(r) \in {"add_user", "login"} /\ reqs'[r].pc = 0)]_vars

\* A registration of the name AllNames[1], taken by then, has been rejected
\* without a cookie, and a login as admin with the changed password of admin
\* has been answered with the cookie of admin.
C16_Witness ==
  /\ \E r \in Reqs : reqs[r].out = Response("Redirect /register#err", {})
  /\ \E r \in Reqs : reqs[r].out = Response("Redirect /", {admin.name})
  /\ users[1].password # admin.password
  /\ cookies = {admin.name, AllNames[1]}

\* The step, if it ends the post_settings request r, does to the stored
\* record of the session's user what the form asks for.
SettingsApplied(r) ==
  LET form == reqs[r].form
      i == FindName(users, CookieName(reqs[r].jar))
      status == reqs'[r].out.status IN
  (Instr(r) = "put_settings" /\ reqs'[r].pc = 0) =>
    /\ i # 0
    /\ (form.newpass # "" /\ form.currpass = users[i].password) =>
         /\ users' = [users EXCEPT ![i].password = form.newpass,
                                   ![i].bio = form.bio]
         /\ status = "Redirect /settings?success"
    /\ (form.newpass # "" /\ form.currpass # users[i].password) =>
         /\ UNCHANGED store
         /\ status = "Redirect /settings?err"
    /\ form.newpass = "" =>
         /\ users' = [users EXCEPT ![i].bio = form.bio]
         /\ status = "Redirect /settings?success"

\* C17: post_settings changes the stored password of the session's user
\* only when newpass is not empty and currpass is the stored password; with
\* a wrong currpass and a non-empty newpass the request fails and the store
\* stays as it was, bio included; with an empty newpass the password stays
\* and only the bio is replaced. No other step changes a password.
C17_PasswordNeedsCurrent ==
  [][(\A r \in Reqs : SettingsApplied(r))
       /\ (\A i \in 1..Len(users) :
             users'[i].password # users[i].password =>
               \E r \in Reqs :
                 /\ Instr(r) = "put_settings"
                 /\ reqs'[r].pc = 0
                 /\ CookieName(reqs[r].jar) = users[i].name
                 /\ reqs[r].form.newpass # ""
                 /\ reqs[r].form.currpass = users[i].password)]_vars

\* AllNames[1] has asked for a new password and a bio with a wrong current
\* password and was refused: its password and its empty bio are as at
\* registration. Before that admin changed its own password.
C17_Witness ==
  /\ \E r \in Reqs :
       reqs[r].out = Response("Redirect /settings?err", {AllNames[1]})
  /\ FindName(users, AllNames[1]) # 0
  /\ Stored(AllNames[1]).bio = ""
  /\ Stored(AllNames[1]).password = "pw1"
  /\ Stored(admin.name).password = "pw1"

\* The step, if it adds a post, is the add_post of a post_create_post
\* request that holds the lock, and the post is by the stored user its
\* cookie names, the one the request read when it took the lock.
PostByCookieUser ==
  Len(posts') # Len(posts) =>
    \E r \in Reqs :
      /\ reqs[r].h = "post_create_post"
      /\ Instr(r) = "add_post"
      /\ lock = r
      /\ reqs'[r].pc = 0
      /\ reqs[r].jar # {}
      /\ FindName(users, CookieName(reqs[r].jar)) # 0
      /\ reqs[r].user = <<Stored(CookieName(reqs[r].jar))>>
      /\ Len(posts') = Len(posts) + 1
      /\ posts'[Len(posts')].author_id = Stored(CookieName(reqs[r].jar)).id
      /\ \A i \in 1..Len(posts) : posts'[i] = posts[i]

\* The step, if it is a lookup of post_create_post for a name that no stored
\* user has, ends the request and leaves the store as it was.
NoUserNoPost(r) ==
  (/\ reqs[r].h = "post_create_post"
   /\ Instr(r) = "by_name"
   /\ FindName(users, CookieName(reqs[r].jar)) = 0
   /\ reqs'[r] # reqs[r]) => (reqs'[r].pc = 0 /\ UNCHANGED store)

\* C18: every stored post has the id of a stored user as author_id;
\* post_create_post adds a post only for the user its cookie names, read
\* under the lock acquisition under which the post is added; without a
\* cookie it is answered on arrival, and arrivals and lookups that find no
\* user add nothing.
C18_PostsHaveAuthors ==
  /\ [](\A i \in 1..Len(posts) : FindId(users, posts[i].author_id) # 0)
  /\ [](on_arrival("post_create_post", {})
          = <<Response("Redirect /login", {})>>)
  /\ [][PostByCookieUser]_vars
  /\ [][\A r \in Reqs :
          /\ NoUserNoPost(r)
          /\ (reqs[r].pc = 0 /\ reqs'[r] # reqs[r]) =>
               Len(posts') = Len(posts)]_vars

\* AllNames[1], registered with id 1, has created a post with its session
\* cookie, and the post has author_id 1.
C18_Witness ==
  /\ Len(posts) = 1
  /\ posts[1].author_id = 1
  /\ FindName(users, AllNames[1]) # 0
  /\ Stored(AllNames[1]).id = 1
  /\ \E r \in Reqs : reqs[r].out = Response("Redirect /", {AllNames[1]})

====
